---- MODULE Spec2Model ----
(***************************************************************************)
(* FireSynth (src/main.rs): a window with three path pickers, a sample     *)
(* rate text input, a reverb check box and a Render button.  The model     *)
(* follows FireSynth::render statement by statement: every `expect` is a   *)
(* stage that either yields its value or panics with the message given in  *)
(* the source.  The file system is the part of the world the handlers      *)
(* touch: the files the pickers can name and what is on disk at the        *)
(* destinations.                                                           *)
(***************************************************************************)
EXTENDS Integers, Sequences, FiniteSets, TLC

\* ------------------------------------------------------------------ bounds
\* Performances last k / DurDen seconds for k in 0..MaxDurNum.
MaxDurNum == 2

\* ------------------------------------------------------- program constants
\* i32::MAX, the range of `let sample_rate: i32` (main.rs:177).
I32Max == 2147483647
\* hound::WavSpec literal of render (main.rs:203-210).
WavChannels == 2
WavBits == 32
\* MidiFile::get_length is modelled in units of 1/DurDen seconds; a power
\* of two, so that the f64 product of main.rs:197 is exact and integer
\* arithmetic models it.
DurDen == 32768
\* Synthesizer::new (main.rs:191-192) fails for a sample rate outside this
\* range.
MinSampleRate == 16000
MaxSampleRate == 192000

\* ------------------------------------------------------------------ world
\* Paths are <<kind, id>>.  The text of a path control holds one of them, or
\* the empty text.
EmptyPath == <<"", 0>>

\* A selected item whose name is not valid Unicode: no text equals it.
NotUnicode == <<"not_unicode", 0>>

\* What the "Open MIDI" dialog (filter *.mid;*.midi) can return: performance
\* k lasts k / DurDen seconds; the last one is not a MIDI file.
GoodMidiPaths == {<<"mid", k>> : k \in 0..MaxDurNum}
CorruptMidi == <<"mid.corrupt", 0>>
MidiPaths == GoodMidiPaths \cup {CorruptMidi}

\* What the "Open SoundFont" dialog (filter *.sf;*.sf2;*.sf3) can return.
GoodSf == <<"sf2", 0>>
CorruptSf == <<"sf2.corrupt", 0>>
SfPaths == {GoodSf, CorruptSf}

\* What the "Save File" dialog (filter *.wav) can return: a file on a healthy
\* volume, a file on a volume with no space left (it can be created, its
\* data cannot be written), and a file in a directory that does not exist.
OutWav == <<"wav", 0>>
FullWav == <<"wav.full", 0>>
NoDirWav == <<"wav.nodir", 0>>
OutPaths == {OutWav, FullWav, NoDirWav}
\* The destinations that can exist on disk.
DiskPaths == {OutWav, FullWav}

\* The texts the user types into the sample rate input, as character
\* sequences; "44100" is replaced by rates that keep the buffers short.
TextDefault == <<"1", "6", "3", "8", "4">>
RateTexts ==
  { TextDefault,
    <<"3", "2", "7", "6", "8">>,
    <<"0">>,
    <<"-", "1">>,
    <<"a">> }

\* File contents at a destination.
Absent == [kind |-> "absent"]
\* Created or truncated by File::create, nothing flushed to it yet.
EmptyFile == [kind |-> "empty"]
\* A finalized WAV container.
WavFile(spec, data) ==
  [kind |-> "wav", spec |-> spec, frames |-> Len(data) \div spec.channels,
   data |-> data]

VARIABLES
  midi_path, sf_path, output_path,  \* texts of the three path controls
  sample_rate,                      \* text of the sample rate input
  reverb,                           \* state of the check box
  fs,                               \* destination files on disk
  pc,                               \* position of the event handler
  err,                              \* message of the panic dialog
  rate,                             \* local sample_rate: i32
  sound_font, midi_file,            \* local Arc<SoundFont>, Arc<MidiFile>
  settings,                         \* local SynthesizerSettings
  left, right,                      \* local sample buffers
  wav_spec,                         \* local spec: hound::WavSpec
  writer,                           \* local hound::WavWriter
  idx,                              \* position of the zip iterator
  opened,                           \* history: files opened for reading
  stages,                           \* history: stages run by this render
  destBefore,                       \* history: fs when the handler began
  dlg                               \* history: result of the last dialog

vars ==
  <<midi_path, sf_path, output_path, sample_rate, reverb, fs, pc, err, rate,
    sound_font, midi_file, settings, left, right, wav_spec, writer, idx,
    opened, stages, destBefore, dlg>>

ui == <<midi_path, sf_path, output_path, sample_rate, reverb>>
locals ==
  <<rate, sound_font, midi_file, settings, left, right, wav_spec, writer, idx>>

\* ---------------------------------------------------------- pure functions
\* Variant: the check box is not read.
checkbox_state_ignored(state) == FALSE

checkbox_state_as_bool(state) ==
  CASE state = "Checked" -> TRUE
    [] state \in {"Unchecked", "Indeterminate"} -> FALSE

Digits == {"0", "1", "2", "3", "4", "5", "6", "7", "8", "9"}
DigitVal(c) ==
  CASE c = "0" -> 0 [] c = "1" -> 1 [] c = "2" -> 2 [] c = "3" -> 3
    [] c = "4" -> 4 [] c = "5" -> 5 [] c = "6" -> 6 [] c = "7" -> 7
    [] c = "8" -> 8 [] c = "9" -> 9

\* The digits of s from position k on, accumulated onto acc the way
\* from_str_radix does (checked_mul, then checked_add or checked_sub): when a
\* character is no digit or the value leaves the range of i32, the parse
\* fails.
RECURSIVE ParseDigits(_, _, _, _)
ParseDigits(s, k, acc, neg) ==
  IF k > Len(s) THEN [ok |-> TRUE, val |-> acc]
  ELSE IF s[k] \notin Digits THEN [ok |-> FALSE, val |-> 0]
  ELSE LET d == DigitVal(s[k])
           m == IF neg THEN 0 - acc ELSE acc
           top == IF neg /\ d > 0 THEN I32Max - (d - 1) ELSE I32Max - d
           fits == IF neg /\ d = 0 THEN m <= I32Max \div 10
                   ELSE m <= top \div 10
       IN IF ~fits THEN [ok |-> FALSE, val |-> 0]
          ELSE ParseDigits(s, k + 1,
                           IF neg THEN acc * 10 - d ELSE acc * 10 + d, neg)

\* str::parse::<i32>: an optional sign, then at least one digit, within the
\* range of i32.
ParseI32(s) ==
  LET neg == Len(s) > 0 /\ s[1] = "-"
      signed == Len(s) > 0 /\ s[1] \in {"-", "+"}
      body == IF signed THEN SubSeq(s, 2, Len(s)) ELSE s
  IN IF body = <<>> THEN [ok |-> FALSE, val |-> 0]
     ELSE ParseDigits(body, 1, 0, neg)

\* Variant: the error is dropped and the handler goes on.
ExpectIgnored(ok, next) == next

\* `expect`: the value on Ok, a panic on Err.
Expect(ok, next) == IF ok THEN next ELSE "panicked"

\* MidiFile::get_length of the performance at a path, in 1/DurDen seconds.
LengthNum(path) == path[2]

\* Variant: the product is rounded to the nearest integer.
SampleCountRounded(r, lengthNum) ==
  IF r * lengthNum <= 0 THEN 0 ELSE (2 * r * lengthNum + DurDen) \div (2 * DurDen)

\* Variant: one more frame than the truncated product.
SampleCountPlusOne(r, lengthNum) ==
  IF r * lengthNum < 0 THEN 0 ELSE (r * lengthNum) \div DurDen + 1

\* (f64::from(sample_rate) * midi_file.get_length()) as usize: the cast
\* truncates toward zero and saturates at 0 for negative products.
SampleCount(r, lengthNum) ==
  IF r * lengthNum <= 0 THEN 0 ELSE (r * lengthNum) \div DurDen

\* The engine is deterministic: sample j of a channel is a function of the
\* bank, the performance, the settings and j.
EngineSample(bank, perf, s, ch, j) ==
  [bank |-> bank, perf |-> perf, rate |-> s.sample_rate,
   fx |-> s.enable_reverb_and_chorus, ch |-> ch, j |-> j]

\* Variant: the buffers are zipped in the other order.
ZipItemSwapped(l, r, j) == <<r[j], l[j]>>

\* left.iter().zip(right.iter()): item j.
ZipItem(l, r, j) == <<l[j], r[j]>>

\* ------------------------------------------------------------ initial state
NoSettings == [sample_rate |-> 0, enable_reverb_and_chorus |-> FALSE]
NoSpec == [channels |-> 0, sample_rate |-> 0, bits_per_sample |-> 0,
           sample_format |-> "none"]
NoWriter == [open |-> FALSE, path |-> EmptyPath, spec |-> NoSpec,
             stream |-> <<>>]
\* No dialog has run since the last other action.
NoDlg == [picker |-> "none", accepted |-> FALSE, item |-> "none",
          path |-> EmptyPath]

\* The end of a handler's scope: its locals are gone.
LocalsDropped ==
  /\ rate' = 0
  /\ sound_font' = EmptyPath
  /\ midi_file' = EmptyPath
  /\ settings' = NoSettings
  /\ left' = <<>>
  /\ right' = <<>>
  /\ wav_spec' = NoSpec
  /\ writer' = NoWriter
  /\ idx' = 0

\* After build_ui: the controls hold their initial texts, nothing is on
\* disk at the destinations, no handler runs.
Init ==
  /\ midi_path = EmptyPath
  /\ sf_path = EmptyPath
  /\ output_path = EmptyPath
  /\ sample_rate = TextDefault
  /\ reverb = "Unchecked"
  /\ fs = [p \in DiskPaths |-> Absent]
  /\ pc = "idle"
  /\ err = ""
  /\ rate = 0
  /\ sound_font = EmptyPath
  /\ midi_file = EmptyPath
  /\ settings = NoSettings
  /\ left = <<>>
  /\ right = <<>>
  /\ wav_spec = NoSpec
  /\ writer = NoWriter
  /\ idx = 0
  /\ opened = {}
  /\ stages = <<>>
  /\ destBefore = fs
  /\ dlg = NoDlg

\* ------------------------------------------------------------ file system
\* File::open succeeds on the files the open dialogs can name; the empty
\* text names no file.
FileExists(path) == path \in MidiPaths \cup SfPaths
\* SoundFont::new and MidiFile::new succeed on well-formed files.
IsSoundFont(path) == path = GoodSf
IsMidi(path) == path \in GoodMidiPaths
\* File::create (inside WavWriter::create) succeeds where the directory
\* exists; a volume with no space left still takes the empty file.
CanCreate(path) == path \in DiskPaths
\* Whether a write_sample on the writer's file may fail: the buffered writer
\* fails when it flushes to a volume with no space left.
WriteOutcomes(path) == IF path = FullWav THEN {TRUE, FALSE} ELSE {TRUE}
\* Whether the header update and flush of the writer's Drop reach the disk.
CanFinalize(path) == path = OutWav

\* Drop of the WavWriter: the header is finalized and the buffer flushed; a
\* failure is ignored, and the file stays as File::create left it.
DropWriter(w, files) ==
  IF w.open /\ CanFinalize(w.path)
  THEN [files EXCEPT ![w.path] = WavFile(w.spec, w.stream)]
  ELSE files

\* ----------------------------------------------------------------- pickers
\* The outcomes of running a file dialog over the given paths: cancelled;
\* accepted with the selected item not retrievable; accepted with an item
\* that is not valid Unicode; accepted with a path.
DialogResults(picker, paths) ==
  {[picker |-> picker, accepted |-> FALSE, item |-> "none", path |-> EmptyPath]}
  \cup {[picker |-> picker, accepted |-> TRUE, item |-> "err",
          path |-> EmptyPath]}
  \cup {[picker |-> picker, accepted |-> TRUE, item |-> "not_unicode",
          path |-> NotUnicode]}
  \cup {[picker |-> picker, accepted |-> TRUE, item |-> "ok", path |-> p] :
          p \in paths}

\* Variant: the control is not cleared before the item is retrieved.
PickerTextNotCleared(old, ev) ==
  IF ev.accepted /\ ev.item = "ok" THEN ev.path ELSE old

\* The text of the picker's path control after the dialog.
PickerText(old, ev) ==
  IF ~ev.accepted THEN old
  ELSE IF ev.item = "ok" THEN ev.path
  ELSE EmptyPath

PickerPanics(ev) == ev.accepted /\ ev.item = "not_unicode"

PickerRest(ev) ==
  /\ pc' = Expect(~PickerPanics(ev), "idle")
  /\ err' = IF PickerPanics(ev) THEN "turning dir into string failed" ELSE ""
  /\ dlg' = ev
  /\ UNCHANGED <<sample_rate, reverb, fs, locals, opened, stages, destBefore>>

midi_select ==
  /\ pc = "idle"
  /\ \E ev \in DialogResults("midi", MidiPaths) :
       /\ midi_path' = PickerText(midi_path, ev)
       /\ UNCHANGED <<sf_path, output_path>>
       /\ PickerRest(ev)

sf_select ==
  /\ pc = "idle"
  /\ \E ev \in DialogResults("sf", SfPaths) :
       /\ sf_path' = PickerText(sf_path, ev)
       /\ UNCHANGED <<midi_path, output_path>>
       /\ PickerRest(ev)

output_select ==
  /\ pc = "idle"
  /\ \E ev \in DialogResults("output", OutPaths) :
       /\ output_path' = PickerText(output_path, ev)
       /\ UNCHANGED <<midi_path, sf_path>>
       /\ PickerRest(ev)

\* The user types into the sample rate input.
EditSampleRate ==
  /\ pc = "idle"
  /\ \E t \in RateTexts : sample_rate' = t
  /\ dlg' = NoDlg
  /\ UNCHANGED <<midi_path, sf_path, output_path, reverb, fs, pc, err, locals,
                 opened, stages, destBefore>>

\* The user clicks the check box.
ToggleReverb ==
  /\ pc = "idle"
  /\ reverb' = IF reverb = "Checked" THEN "Unchecked" ELSE "Checked"
  /\ dlg' = NoDlg
  /\ UNCHANGED <<midi_path, sf_path, output_path, sample_rate, fs, pc, err,
                 locals, opened, stages, destBefore>>

\* ------------------------------------------------------------------ render
\* One stage of render has run: it is logged with the position of the loop;
\* on failure the handler panics with the message of its `expect`.
Stage(name, ok, msg, next) ==
  /\ stages' = Append(stages, <<name, idx>>)
  /\ pc' = Expect(ok, next)
  /\ err' = IF ok THEN "" ELSE msg

Min(a, b) == IF a <= b THEN a ELSE b
\* The head of `for sample in left.iter().zip(right.iter())`.
LoopHead(j, l, r) == IF j <= Min(Len(l), Len(r)) THEN "write_left" ELSE "report"

\* main.rs:177-181
RenderParse ==
  /\ pc = "idle"
  /\ LET p == ParseI32(sample_rate)
     IN /\ rate' = IF p.ok THEN p.val ELSE 0
        /\ pc' = Expect(p.ok, "open_sf")
        /\ err' = IF p.ok THEN "" ELSE "parsing sample rate into i32 failed"
  /\ stages' = <<<<"parse", idx>>>>
  /\ opened' = {}
  /\ destBefore' = fs
  /\ dlg' = NoDlg
  /\ UNCHANGED <<ui, fs, sound_font, midi_file, settings, left, right,
                 wav_spec, writer, idx>>

\* main.rs:183
RenderOpenSf ==
  /\ pc = "open_sf"
  /\ Stage("open_sf", FileExists(sf_path), "opening SoundFont failed", "new_sf")
  /\ opened' = IF FileExists(sf_path) THEN opened \cup {sf_path} ELSE opened
  /\ UNCHANGED <<ui, fs, locals, destBefore, dlg>>

\* main.rs:184
RenderNewSoundFont ==
  /\ pc = "new_sf"
  /\ Stage("new_sf", IsSoundFont(sf_path), "creating SoundFont failed",
           "open_midi")
  /\ sound_font' = IF IsSoundFont(sf_path) THEN sf_path ELSE sound_font
  /\ UNCHANGED <<ui, fs, rate, midi_file, settings, left, right, wav_spec,
                 writer, idx, opened, destBefore, dlg>>

\* main.rs:186
RenderOpenMidi ==
  /\ pc = "open_midi"
  /\ Stage("open_midi", FileExists(midi_path), "opening MIDI failed",
           "new_midi")
  /\ opened' = IF FileExists(midi_path) THEN opened \cup {midi_path} ELSE opened
  /\ UNCHANGED <<ui, fs, locals, destBefore, dlg>>

\* main.rs:187
RenderNewMidi ==
  /\ pc = "new_midi"
  /\ Stage("new_midi", IsMidi(midi_path), "creating MIDI failed", "new_synth")
  /\ midi_file' = IF IsMidi(midi_path) THEN midi_path ELSE midi_file
  /\ UNCHANGED <<ui, fs, rate, sound_font, settings, left, right, wav_spec,
                 writer, idx, opened, destBefore, dlg>>

\* main.rs:189-193
RenderNewSynth ==
  /\ pc = "new_synth"
  /\ settings' = [sample_rate |-> rate,
                  enable_reverb_and_chorus |-> checkbox_state_as_bool(reverb)]
  /\ Stage("new_synth", rate \in MinSampleRate..MaxSampleRate,
           "creating synthesizer failed", "play")
  /\ UNCHANGED <<ui, fs, rate, sound_font, midi_file, left, right, wav_spec,
                 writer, idx, opened, destBefore, dlg>>

\* main.rs:195-201: play, allocate both buffers, render into them.
RenderPlay ==
  /\ pc = "play"
  /\ LET n == SampleCount(rate, LengthNum(midi_file))
     IN /\ left' = [j \in 1..n |->
                      EngineSample(sound_font, midi_file, settings, "L", j)]
        /\ right' = [j \in 1..n |->
                       EngineSample(sound_font, midi_file, settings, "R", j)]
  /\ Stage("play", TRUE, "", "spec")
  /\ UNCHANGED <<ui, fs, rate, sound_font, midi_file, settings, wav_spec,
                 writer, idx, opened, destBefore, dlg>>

\* main.rs:203-210
RenderSpec ==
  /\ pc = "spec"
  /\ wav_spec' = IF rate >= 0
                 THEN [channels |-> WavChannels, sample_rate |-> rate,
                       bits_per_sample |-> WavBits, sample_format |-> "Float"]
                 ELSE wav_spec
  /\ Stage("spec", rate >= 0, "converting sample_rate into u32 failed",
           "create")
  /\ UNCHANGED <<ui, fs, rate, sound_font, midi_file, settings, left, right,
                 writer, idx, opened, destBefore, dlg>>

\* main.rs:211-212: the destination is created or truncated; the header goes
\* to the writer's buffer.
RenderCreate ==
  /\ pc = "create"
  /\ Stage("create", CanCreate(output_path), "creating WAV writer failed",
           LoopHead(1, left, right))
  /\ IF CanCreate(output_path)
     THEN /\ fs' = [fs EXCEPT ![output_path] = EmptyFile]
          /\ writer' = [open |-> TRUE, path |-> output_path,
                        spec |-> wav_spec, stream |-> <<>>]
          /\ idx' = 1
     ELSE UNCHANGED <<fs, writer, idx>>
  /\ UNCHANGED <<ui, rate, sound_font, midi_file, settings, left, right,
                 wav_spec, opened, destBefore, dlg>>

\* main.rs:215-217
RenderWriteLeft ==
  /\ pc = "write_left"
  /\ \E ok \in WriteOutcomes(writer.path) :
       /\ Stage("write_left", ok, "writing wav left channel failed",
                "write_right")
       /\ writer' = IF ok
                    THEN [writer EXCEPT
                            !.stream = Append(@, ZipItem(left, right, idx)[1])]
                    ELSE writer
  /\ UNCHANGED <<ui, fs, rate, sound_font, midi_file, settings, left, right,
                 wav_spec, idx, opened, destBefore, dlg>>

\* main.rs:218-220, then the next iteration of the loop (main.rs:214).
RenderWriteRight ==
  /\ pc = "write_right"
  /\ \E ok \in WriteOutcomes(writer.path) :
       /\ Stage("write_right", ok, "writing wav right channel failed",
                LoopHead(idx + 1, left, right))
       /\ writer' = IF ok
                    THEN [writer EXCEPT
                            !.stream = Append(@, ZipItem(left, right, idx)[2])]
                    ELSE writer
       /\ idx' = IF ok THEN idx + 1 ELSE idx
  /\ UNCHANGED <<ui, fs, rate, sound_font, midi_file, settings, left, right,
                 wav_spec, opened, destBefore, dlg>>

\* main.rs:223: the "Finished" message is shown.
RenderReport ==
  /\ pc = "report"
  /\ Stage("report", TRUE, "", "finished")
  /\ UNCHANGED <<ui, fs, locals, opened, destBefore, dlg>>

\* main.rs:224: the message is dismissed and render returns; its locals are
\* dropped, the writer among them.
RenderReturn ==
  /\ pc = "finished"
  /\ fs' = DropWriter(writer, fs)
  /\ LocalsDropped
  /\ pc' = "idle"
  /\ err' = ""
  /\ opened' = {}
  /\ stages' = <<>>
  /\ destBefore' = fs'
  /\ UNCHANGED <<ui, dlg>>

\* main.rs:125-143: the panic hook has shown its message box.  The panic
\* leaves the handler: its locals are dropped, and the process either dies
\* at the boundary of the window procedure or goes on dispatching events.
PanicUnwind ==
  /\ pc = "panicked"
  /\ fs' = DropWriter(writer, fs)
  /\ LocalsDropped
  /\ \E resume \in BOOLEAN :
       IF resume
       THEN /\ pc' = "idle"
            /\ err' = ""
            /\ opened' = {}
            /\ stages' = <<>>
            /\ destBefore' = fs'
            /\ dlg' = NoDlg
       ELSE /\ pc' = "aborted"
            /\ UNCHANGED <<err, opened, stages, destBefore, dlg>>
  /\ UNCHANGED ui

Next ==
  \/ midi_select
  \/ sf_select
  \/ output_select
  \/ EditSampleRate
  \/ ToggleReverb
  \/ RenderParse
  \/ RenderOpenSf
  \/ RenderNewSoundFont
  \/ RenderOpenMidi
  \/ RenderNewMidi
  \/ RenderNewSynth
  \/ RenderPlay
  \/ RenderSpec
  \/ RenderCreate
  \/ RenderWriteLeft
  \/ RenderWriteRight
  \/ RenderReport
  \/ RenderReturn
  \/ PanicUnwind

Spec == Init /\ [][Next]_vars

\* ================================================================== claims
\* The inputs of the render in progress, read from the controls; the
\* handlers cannot run while render does, so they are the inputs it began
\* with.
InRender == stages # <<>>
Ended == pc \in {"panicked", "aborted"}
Ran(name) == \E k \in 1..Len(stages) : stages[k][1] = name
RateIn == ParseI32(sample_rate)
RateValid == RateIn.ok /\ RateIn.val \in MinSampleRate..MaxSampleRate
FxIn == reverb = "Checked"
BankBad == sf_path # GoodSf
PerfBad == midi_path \notin GoodMidiPaths
FramesIn == (RateIn.val * midi_path[2]) \div DurDen
SpecIn ==
  [channels |-> 2, sample_rate |-> RateIn.val, bits_per_sample |-> 32,
   sample_format |-> "Float"]
SampleIn(ch, j) ==
  [bank |-> sf_path, perf |-> midi_path, rate |-> RateIn.val, fx |-> FxIn,
   ch |-> ch, j |-> j]
\* left[1], right[1], left[2], right[2], ... of the inputs.
StreamIn ==
  [k \in 1..(2 * FramesIn) |->
     IF k % 2 = 1 THEN SampleIn("L", (k + 1) \div 2) ELSE SampleIn("R", k \div 2)]
IsPrefix(a, b) == Len(a) <= Len(b) /\ \A k \in 1..Len(a) : a[k] = b[k]

C2_InvalidRateNoIO ==
  (InRender /\ (~RateIn.ok \/ RateIn.val <= 0)) =>
    /\ opened = {}
    /\ fs = destBefore

\* ---- C3
\* C3 as stated: when render has failed, every destination file is as it
\* was before the render, or is a complete container.
C3_NoPartialOutput ==
  (InRender /\ Ended) =>
    \A p \in DiskPaths : fs[p] = destBefore[p] \/ fs[p].kind = "wav"

\* ---- C4
\* C4 as stated: when the "Finished" message is shown, the destination holds
\* the finalized container of the samples written.
C4_ReportAfterFinalize ==
  pc = "finished" =>
    fs[output_path] = WavFile(writer.spec, writer.stream)

\* ---- C5
\* C5 as stated: a render with a missing or corrupt bank fails with a
\* message naming the bank; one with a missing or corrupt performance (and
\* a good bank) fails with a message naming the performance; the
\* destination files stay as they were.
BankErrors == {"opening SoundFont failed", "creating SoundFont failed"}
PerfErrors == {"opening MIDI failed", "creating MIDI failed"}
C5_ErrorNamesResource ==
  (InRender /\ Ended) =>
    /\ BankBad => err \in BankErrors /\ fs = destBefore
    /\ (PerfBad /\ ~BankBad) => err \in PerfErrors /\ fs = destBefore

\* C5 amended: a render with a missing or corrupt bank never gets past
\* loading the bank, and one with a missing or corrupt performance never
\* gets past loading the performance; the destination files stay as they
\* were; and when the sample rate text parses as an i32, the message names
\* the bank, or, the bank being good, the performance.
C5_ResourceFailure ==
  InRender =>
    /\ BankBad =>
         /\ pc \in {"open_sf", "new_sf", "panicked", "aborted"}
         /\ fs = destBefore
         /\ (Ended /\ RateIn.ok) => err \in BankErrors
    /\ PerfBad =>
         /\ pc \in {"open_sf", "new_sf", "open_midi", "new_midi", "panicked",
                    "aborted"}
         /\ fs = destBefore
         /\ (Ended /\ RateIn.ok /\ ~BankBad) => err \in PerfErrors

\* A render over an existing output file has failed on a corrupt
\* performance.
C5_Witness ==
  /\ pc = "panicked"
  /\ midi_path = CorruptMidi
  /\ err = "creating MIDI failed"
  /\ output_path = OutWav
  /\ fs[OutWav].kind = "wav"

\* ---- C6
\* C6: a render of the performance of duration 0 with a good bank, a sample
\* rate the engine accepts and a destination on a healthy volume never
\* fails, its buffers and the stream handed to the writer are empty, and
\* when it returns the destination holds a container of zero frames.
C6_Inputs ==
  /\ InRender
  /\ midi_path = <<"mid", 0>>
  /\ sf_path = GoodSf
  /\ RateValid
  /\ output_path = OutWav
C6_State ==
  C6_Inputs =>
    /\ ~Ended
    /\ err = ""
    /\ Ran("play") => left = <<>> /\ right = <<>>
    /\ writer.stream = <<>>
    /\ Ran("create") => ~Ran("write_left") /\ ~Ran("write_right")
C6_Return ==
  (C6_Inputs /\ pc = "finished" /\ pc' = "idle") =>
    fs'[OutWav] = [kind |-> "wav", spec |-> SpecIn, frames |-> 0, data |-> <<>>]
\* C6: a render of a performance of duration 0 on good inputs never fails,
\* writes no sample, and leaves a valid container of zero frames.
C6_ZeroLength == []C6_State /\ [][C6_Return]_vars

\* A render of the performance of duration 0 has reported success.
C6_Witness == C6_Inputs /\ pc = "finished"

\* ---- C7
\* C7: the writer is created with 2 channels, the requested rate and 32-bit
\* float samples; the samples written so far are left[1], right[1],
\* left[2], right[2], ...; at the report they are all 2 * n of them; and a
\* render that returns leaves, on a healthy volume, a container of n frames
\* holding them.
C7_State ==
  writer.open =>
    /\ writer.spec = SpecIn
    /\ Len(left) = Len(right)
    /\ Len(writer.stream) <= 2 * Len(left)
    /\ \A k \in 1..Len(writer.stream) :
         writer.stream[k] =
           IF k % 2 = 1 THEN left[(k + 1) \div 2] ELSE right[k \div 2]
    /\ \A j \in 1..Len(left) : left[j].ch = "L" /\ right[j].ch = "R"
    /\ pc = "finished" => Len(writer.stream) = 2 * Len(left)
C7_Return ==
  (pc = "finished" /\ pc' = "idle" /\ output_path = OutWav) =>
    /\ fs'[OutWav].kind = "wav"
    /\ fs'[OutWav].spec = SpecIn
    /\ fs'[OutWav].frames = Len(left)
    /\ fs'[OutWav].data = writer.stream
RECURSIVE WriteStages(_, _)
WriteStages(j, n) ==
  IF j > n THEN <<>>
  ELSE <<<<"write_left", j>>, <<"write_right", j>>>> \o WriteStages(j + 1, n)
StageOrder(n) ==
  <<<<"parse", 0>>, <<"open_sf", 0>>, <<"new_sf", 0>>, <<"open_midi", 0>>,
    <<"new_midi", 0>>, <<"new_synth", 0>>, <<"play", 0>>, <<"spec", 0>>,
    <<"create", 0>>>> \o WriteStages(1, n) \o <<<<"report", n + 1>>>>
C8_State ==
  /\ IsPrefix(stages, StageOrder(IF Ran("play") THEN FramesIn ELSE 0))
  /\ (InRender /\ err # "") => Ended /\ ~Ran("report")
  /\ (InRender /\ Ended) => err # ""
C8_Step ==
  (InRender /\ err # "") => stages' = stages \/ stages' = <<>>
\* C8: a failed stage ends its render: no later stage runs, none runs
\* twice, and success is not reported.
C8_AbortOnFailure == []C8_State /\ [][C8_Step]_vars

\* A render has failed while writing its second frame.
C8_Witness ==
  /\ pc = "panicked"
  /\ err = "writing wav right channel failed"
  /\ Len(stages) = 13

\* ---- C9
\* C9: whatever ran before, a render's stream, its writer and its failure
\* are those its own inputs determine; between handlers no local of an
\* earlier render is left; and a render that returns changes the
\* destination file only, to the container its inputs determine.
ErrorIn ==
  IF ~RateIn.ok THEN "parsing sample rate into i32 failed"
  ELSE IF sf_path = EmptyPath THEN "opening SoundFont failed"
  ELSE IF sf_path # GoodSf THEN "creating SoundFont failed"
  ELSE IF midi_path = EmptyPath THEN "opening MIDI failed"
  ELSE IF midi_path \notin GoodMidiPaths THEN "creating MIDI failed"
  ELSE IF ~RateValid THEN "creating synthesizer failed"
  ELSE IF output_path \notin DiskPaths THEN "creating WAV writer failed"
  ELSE "writing"
C9_State ==
  /\ pc = "idle" =>
       /\ rate = 0 /\ sound_font = EmptyPath /\ midi_file = EmptyPath
       /\ settings = NoSettings /\ left = <<>> /\ right = <<>>
       /\ wav_spec = NoSpec /\ writer = NoWriter /\ idx = 0
  /\ writer.open =>
       /\ writer.path = output_path
       /\ writer.spec = SpecIn
       /\ IsPrefix(writer.stream, StreamIn)
  /\ pc = "finished" => writer.stream = StreamIn
  /\ (InRender /\ pc = "panicked") =>
       \/ err = ErrorIn
       \/ /\ ErrorIn = "writing"
          /\ err \in {"writing wav left channel failed",
                      "writing wav right channel failed"}
C9_Return ==
  (pc = "finished" /\ pc' = "idle") =>
    /\ \A p \in DiskPaths \ {output_path} : fs'[p] = fs[p]
    /\ output_path = OutWav => fs'[OutWav] = WavFile(SpecIn, StreamIn)
\* C9: the outcome and output of a render depend on its own inputs only,
\* whatever renders ran before it.
C9_Independent == []C9_State /\ [][C9_Return]_vars

\* A render with the effects on has reported success over the output of an
\* earlier render with different inputs.
C9_Witness ==
  /\ pc = "finished"
  /\ FxIn
  /\ Len(writer.stream) = 4
  /\ destBefore[OutWav].kind = "wav"
  /\ destBefore[OutWav].data # StreamIn

\* ---- C10
\* The path control of a picker, before and after a step.
FieldOf(picker) ==
  CASE picker = "midi" -> midi_path
    [] picker = "sf" -> sf_path
    [] picker = "output" -> output_path
FieldAfter(picker) ==
  CASE picker = "midi" -> midi_path'
    [] picker = "sf" -> sf_path'
    [] picker = "output" -> output_path'
PickerStep == pc = "idle" /\ dlg'.picker # "none"
OthersKept(picker) ==
  /\ picker # "midi" => midi_path' = midi_path
  /\ picker # "sf" => sf_path' = sf_path
  /\ picker # "output" => output_path' = output_path
  /\ sample_rate' = sample_rate
  /\ reverb' = reverb
  /\ fs' = fs

\* C10 as stated: a cancelled dialog leaves the picker's control unchanged,
\* an accepted dialog sets it to the selected item, an accepted dialog whose
\* item cannot be retrieved leaves it empty, and the other controls are
\* unchanged.
C10_StepAsStated ==
  PickerStep =>
    /\ ~dlg'.accepted => FieldAfter(dlg'.picker) = FieldOf(dlg'.picker)
    /\ (dlg'.accepted /\ dlg'.item # "err") =>
         FieldAfter(dlg'.picker) = dlg'.path
    /\ (dlg'.accepted /\ dlg'.item = "err") =>
         FieldAfter(dlg'.picker) = EmptyPath
    /\ OthersKept(dlg'.picker)
\* C10 as stated, over every step of every behaviour.
C10_PickersAsStated == [][C10_StepAsStated]_vars

\* C10 amended: a cancelled dialog leaves the picker's control unchanged, an
\* accepted dialog whose selected item is valid Unicode sets it to the item,
\* an accepted dialog whose item cannot be retrieved or is not valid Unicode
\* leaves it empty (and the latter panics), and the other controls are
\* unchanged.
C10_Step ==
  PickerStep =>
    /\ ~dlg'.accepted => FieldAfter(dlg'.picker) = FieldOf(dlg'.picker)
    /\ (dlg'.accepted /\ dlg'.item = "ok") =>
         FieldAfter(dlg'.picker) = dlg'.path
    /\ (dlg'.accepted /\ dlg'.item \in {"err", "not_unicode"}) =>
         FieldAfter(dlg'.picker) = EmptyPath
    /\ (dlg'.accepted /\ dlg'.item = "not_unicode") <=> pc' = "panicked"
    /\ OthersKept(dlg'.picker)
\* C10 amended, over every step of every behaviour.
C10_Pickers == [][C10_Step]_vars

\* The MIDI picker was accepted without a retrievable item while the other
\* two controls held paths.
C10_Witness ==
  /\ dlg.picker = "midi"
  /\ dlg.accepted
  /\ dlg.item = "err"
  /\ midi_path = EmptyPath
  /\ sf_path = GoodSf
  /\ output_path = OutWav

====
